---- MODULE Spec2Model ----
(***************************************************************************)
(* Model of datavisualizer.py: the menu controller (main), the loader,     *)
(* the five chart renderers, get_user_choice and the report writer.        *)
(* The environment (file system, console input, clock, operator           *)
(* interruption) is a nondeterministic choice in each action.              *)
(***************************************************************************)
EXTENDS Integers, Sequences, FiniteSets, TLC

\* ---------------------------------------------------------------- bounds
MaxLen == 2        \* longest console line typed at the menu prompt
MaxCycles == 2     \* valid menu choices per session
MaxTime == 1       \* last clock second of the session

\* ------------------------------------------------------- program constants
Columns == {"Month", "Sales", "Profit", "Customers", "Expenses"}

\* column sets of the files the session is run on: the expected schema, the
\* schema without Month, one numeric column beside Month, Month alone, and
\* none of the expected columns
Schemas ==
    {Columns, Columns \ {"Month"}, {"Month", "Sales"}, {"Month"}, {}}

Kinds == <<"line", "bar", "scatter", "histogram", "heatmap">>

\* names bound at module level by the import statements
ModuleGlobals == {"pd", "plt", "sns", "os", "datetime"}

\* characters the operator may type
Digits == {"0", "1", "2", "3", "4", "5", "6", "7", "8", "9"}

Chars == Digits \cup {"-", "+", " ", "a"}

\* ------------------------------------------------------------- int(input())
DigitVal(c) ==
    CASE c = "0" -> 0 [] c = "1" -> 1 [] c = "2" -> 2 [] c = "3" -> 3
      [] c = "4" -> 4 [] c = "5" -> 5 [] c = "6" -> 6 [] c = "7" -> 7
      [] c = "8" -> 8 [] c = "9" -> 9

RECURSIVE LStrip(_)
LStrip(s) == IF s # <<>> /\ Head(s) = " " THEN LStrip(Tail(s)) ELSE s

RECURSIVE RStrip(_)
RStrip(s) ==
    IF s # <<>> /\ s[Len(s)] = " " THEN RStrip(SubSeq(s, 1, Len(s) - 1)) ELSE s

Strip(s) == RStrip(LStrip(s))

RECURSIVE DecVal(_)
DecVal(s) ==
    IF s = <<>> THEN 0
    ELSE 10 * DecVal(SubSeq(s, 1, Len(s) - 1)) + DigitVal(s[Len(s)])

AllDigits(s) == s # <<>> /\ \A i \in 1..Len(s) : s[i] \in Digits

\* int(text): [ok |-> FALSE] stands for ValueError
ParseInt(text) ==
    LET t == Strip(text)
        signed == t # <<>> /\ Head(t) \in {"-", "+"}
        body == IF signed THEN Tail(t) ELSE t
    IN  IF AllDigits(body)
        THEN [ok |-> TRUE,
              val |-> IF signed /\ Head(t) = "-" THEN 0 - DecVal(body)
                      ELSE DecVal(body)]
        ELSE [ok |-> FALSE, val |-> 0]

InRangeLoose(choice) == choice <= 8

InRange(choice) == 1 <= choice /\ choice <= 8

RECURSIVE SeqsUpTo(_)
SeqsUpTo(n) ==
    IF n = 0 THEN {<<>>}
    ELSE LET shorter == SeqsUpTo(n - 1)
         IN  shorter \cup {Append(s, c) : s \in shorter, c \in Chars}

Inputs == SeqsUpTo(MaxLen)

\* ------------------------------------------------------------------ paths
KindPrefix(kind) ==
    CASE kind = "line" -> "line_plot"
      [] kind = "bar" -> "bar_chart"
      [] kind = "scatter" -> "scatter_plot"
      [] kind = "histogram" -> "histogram"
      [] kind = "heatmap" -> "heatmap"

\* f"{save_path}/{kind}_{timestamp}.png"
PlotPath(kind, ts) == <<"plots", KindPrefix(kind), ts, "png">>

NoPath == <<>>

\* os.path.basename
Basename(path) == Tail(path)

\* ----------------------------------------------------------------- tables
NoneData == [loaded |-> FALSE, cols |-> {}]

Table(cols) == [loaded |-> TRUE, cols |-> cols]

NumericCols(d) == d.cols \ {"Month"}

\* columns indexed by name before each renderer saves its figure
NeededCols(kind) ==
    CASE kind = "line" -> {"Month", "Sales", "Profit", "Customers", "Expenses"}
      [] kind = "bar" -> {"Month", "Sales", "Expenses", "Profit"}
      [] kind = "scatter" -> {"Customers", "Sales", "Profit", "Expenses"}
      [] kind = "histogram" -> {"Sales", "Profit", "Expenses", "Customers"}
      [] kind = "heatmap" -> {}

ReportCols == {"Month", "Sales", "Expenses", "Profit", "Customers"}

NpBound == "np" \in ModuleGlobals

\* the exception a renderer raises before saving, "none" if it reaches savefig
RenderError(kind, d) ==
    IF ~(NeededCols(kind) \subseteq d.cols) THEN "KeyError"
    ELSE IF kind = "scatter" /\ ~NpBound THEN "NameError"
    ELSE IF kind = "heatmap" /\ NumericCols(d) = {} THEN "ValueError"
    ELSE "none"

\* renderers a menu choice calls, in call order
Renderers(choice) ==
    IF choice \in 1..5 THEN <<Kinds[choice]>>
    ELSE IF choice = 6 THEN Kinds
    ELSE <<>>

\* ----------------------------------------------------------------- report
RECURSIVE NumberFrom(_, _)
NumberFrom(paths, i) ==
    IF paths = <<>> THEN <<>>
    ELSE <<[n |-> i, name |-> Basename(Head(paths))]>>
         \o NumberFrom(Tail(paths), i + 1)

ReportEntriesFull(paths) == [i \in 1..Len(paths) |-> [n |-> i, name |-> paths[i]]]

\* the numbered list generate_analysis_report appends
ReportEntries(paths) == NumberFrom(paths, 1)

NoReport == [built |-> FALSE, entries |-> <<>>]

NoFile == [written |-> FALSE, complete |-> FALSE, entries |-> <<>>]

\* ------------------------------------------------------- failure handling
\* load_data: try/except Exception around the existence test and read_csv
LoadResultNoTry(exists, parses, cols) ==
    IF ~exists THEN [raised |-> "none", data |-> NoneData, msg |-> "not found"]
    ELSE IF ~parses
    THEN [raised |-> "ParserError", data |-> NoneData, msg |-> "traceback"]
    ELSE [raised |-> "none", data |-> Table(cols), msg |-> "loaded"]

LoadResult(exists, parses, cols) ==
    IF ~exists THEN [raised |-> "none", data |-> NoneData, msg |-> "not found"]
    ELSE IF ~parses
    THEN [raised |-> "none", data |-> NoneData, msg |-> "load error"]
    ELSE [raised |-> "none", data |-> Table(cols), msg |-> "loaded"]

\* how main ends when exception e is raised; inTry: inside main's try block
OutcomeNoInterruptClause(e, inTry) ==
    IF ~inTry \/ e = "KeyboardInterrupt" THEN "uncaught" ELSE "error"

OutcomeNoCatchAll(e, inTry) ==
    IF ~inTry THEN "uncaught"
    ELSE IF e = "KeyboardInterrupt" THEN "farewell"
    ELSE "uncaught"

Outcome(e, inTry) ==
    IF ~inTry THEN "uncaught"
    ELSE IF e = "KeyboardInterrupt" THEN "farewell"
    ELSE "error"

OutcomeMsg(o) ==
    CASE o = "farewell" -> "farewell"
      [] o = "error" -> "generic error"
      [] o = "uncaught" -> "traceback"

\* save_report: try/except Exception around open and write
SaveResultNoTry(opens, writes, text) ==
    IF ~opens
    THEN [raised |-> "OSError", ret |-> "unset", file |-> NoFile, touched |-> FALSE]
    ELSE IF ~writes
    THEN [raised |-> "OSError", ret |-> "unset", touched |-> TRUE,
          file |-> [written |-> TRUE, complete |-> FALSE, entries |-> <<>>]]
    ELSE [raised |-> "none", ret |-> "True", touched |-> TRUE,
          file |-> [written |-> TRUE, complete |-> TRUE, entries |-> text.entries]]

SaveResult(opens, writes, text) ==
    IF ~opens
    THEN [raised |-> "none", ret |-> "False", file |-> NoFile, touched |-> FALSE]
    ELSE IF ~writes
    THEN [raised |-> "none", ret |-> "False", touched |-> TRUE,
          file |-> [written |-> TRUE, complete |-> FALSE, entries |-> <<>>]]
    ELSE [raised |-> "none", ret |-> "True", touched |-> TRUE,
          file |-> [written |-> TRUE, complete |-> TRUE, entries |-> text.entries]]

\* `if plot_files:` on the exit branch
ShouldReportAlways(list) == TRUE

ShouldReport(list) == list # <<>>

\* plot_files.append(filename)
PrependPlot(list, path) == <<path>> \o list

AppendPlot(list, path) == Append(list, path)

\* ------------------------------------------------------------------ state
VARIABLES
    pc,           \* position of main
    data,         \* the Table, NoneData before and after a failed load
    plot_files,   \* the artifact list
    files,        \* image files written under plots/
    filename,     \* path a renderer has saved and not yet returned
    pending,      \* renderers the current choice has still to call
    choices,      \* values get_user_choice has returned so far
    report,       \* the report text built on the exit branch
    reportFile,   \* analysis_report.txt as written by this session
    saveResult,   \* return value of save_report
    reportReads,  \* calls of generate_analysis_report
    exc,          \* exception that reached main, "none" if there is none
    termination,  \* how main ended, "running" while it has not
    console,      \* last message printed
    now           \* clock, in seconds

vars == <<pc, data, plot_files, files, filename, pending, choices, report,
          reportFile, saveResult, reportReads, exc, termination, console, now>>

InTry == pc # "load"

Init ==
    /\ pc = "load"
    /\ data = NoneData
    /\ plot_files = <<>>
    /\ files = {}
    /\ filename = NoPath
    /\ pending = <<>>
    /\ choices = <<>>
    /\ report = NoReport
    /\ reportFile = NoFile
    /\ saveResult = "unset"
    /\ reportReads = 0
    /\ exc = "none"
    /\ termination = "running"
    /\ console = "banner"
    /\ now = 0

\* exception e leaves the current statement of main
Raise(e) ==
    /\ exc' = e
    /\ termination' = Outcome(e, InTry)
    /\ console' = OutcomeMsg(Outcome(e, InTry))
    /\ pc' = "done"

\* main, lines 340-345: load_data() and the test for None
LoadData ==
    /\ pc = "load"
    /\ \E exists \in BOOLEAN, parses \in BOOLEAN, cols \in Schemas :
         LET r == LoadResult(exists, parses, cols)
         IN  IF r.raised # "none"
             THEN /\ Raise(r.raised)
                  /\ UNCHANGED data
             ELSE /\ data' = r.data
                  /\ exc' = exc
                  /\ IF r.data.loaded
                     THEN /\ pc' = "choice"
                          /\ console' = r.msg
                          /\ termination' = termination
                     ELSE /\ pc' = "done"
                          /\ console' = "cannot proceed"
                          /\ termination' = "nodata"
    /\ UNCHANGED <<plot_files, files, filename, pending, choices, report,
                   reportFile, saveResult, reportReads, now>>

\* one line typed at get_user_choice's prompt, and main's dispatch on the
\* value it returns (lines 349-397)
MenuCycle ==
    /\ pc = "choice"
    /\ \E text \in Inputs :
         LET parsed == ParseInt(text)
         IN  IF ~parsed.ok
             THEN /\ console' = "valid number"
                  /\ UNCHANGED <<pc, choices, pending, termination>>
             ELSE IF ~InRange(parsed.val)
             THEN /\ console' = "between 1 and 8"
                  /\ UNCHANGED <<pc, choices, pending, termination>>
             ELSE /\ Len(choices) < MaxCycles
                  /\ choices' = Append(choices, parsed.val)
                  /\ IF parsed.val = 8
                     THEN /\ console' = "thank you"
                          /\ pending' = pending
                          /\ IF ShouldReport(plot_files)
                             THEN /\ pc' = "generate"
                                  /\ termination' = termination
                             ELSE /\ pc' = "done"
                                  /\ termination' = "normal"
                     ELSE IF parsed.val = 7
                     THEN /\ console' = "preview"
                          /\ UNCHANGED <<pc, pending, termination>>
                     ELSE /\ console' = "generating"
                          /\ pending' = Renderers(parsed.val)
                          /\ termination' = termination
                          /\ pc' = IF Renderers(parsed.val) = <<>>
                                   THEN "pressEnter" ELSE "render"
    /\ UNCHANGED <<data, plot_files, files, filename, report, reportFile,
                   saveResult, reportReads, exc, now>>

\* input() at end of file, at either prompt
InputEOF ==
    /\ pc \in {"choice", "pressEnter"}
    /\ Raise("EOFError")
    /\ UNCHANGED <<data, plot_files, files, filename, pending, choices, report,
                   reportFile, saveResult, reportReads, now>>

\* a renderer up to and including savefig
Render ==
    /\ pc = "render"
    /\ LET kind == Head(pending)
           err == RenderError(kind, data)
       IN  IF err # "none"
           THEN /\ Raise(err)
                /\ UNCHANGED <<files, filename, now>>
           ELSE \E writes \in BOOLEAN, ts \in now..MaxTime :
                  IF ~writes
                  THEN /\ Raise("OSError")
                       /\ UNCHANGED <<files, filename, now>>
                  ELSE /\ now' = ts
                       /\ filename' = PlotPath(kind, ts)
                       /\ files' = files \cup {PlotPath(kind, ts)}
                       /\ console' = "plot saved"
                       /\ pc' = "show"
                       /\ UNCHANGED <<exc, termination>>
    /\ UNCHANGED <<data, plot_files, pending, choices, report, reportFile,
                   saveResult, reportReads>>

\* plt.show(), the renderer's return and main's plot_files.append
Show ==
    /\ pc = "show"
    /\ plot_files' = AppendPlot(plot_files, filename)
    /\ filename' = NoPath
    /\ pending' = Tail(pending)
    /\ pc' = IF Tail(pending) = <<>> THEN "pressEnter" ELSE "render"
    /\ UNCHANGED <<data, files, choices, report, reportFile, saveResult,
                   reportReads, exc, termination, console, now>>

\* input("Press Enter to continue...")
PressEnter ==
    /\ pc = "pressEnter"
    /\ pc' = "choice"
    /\ UNCHANGED <<data, plot_files, files, filename, pending, choices, report,
                   reportFile, saveResult, reportReads, exc, termination,
                   console, now>>

\* generate_analysis_report(data, plot_files)
GenerateReport ==
    /\ pc = "generate"
    /\ reportReads' = reportReads + 1
    /\ IF ReportCols \subseteq data.cols
       THEN /\ report' = [built |-> TRUE, entries |-> ReportEntries(plot_files)]
            /\ pc' = "save"
            /\ UNCHANGED <<exc, termination, console>>
       ELSE /\ Raise("KeyError")
            /\ UNCHANGED report
    /\ UNCHANGED <<data, plot_files, files, filename, pending, choices,
                   reportFile, saveResult, now>>

\* save_report(report)
SaveReport ==
    /\ pc = "save"
    /\ \E opens \in BOOLEAN, writes \in BOOLEAN :
         LET r == SaveResult(opens, writes, report)
         IN  /\ reportFile' = IF r.touched THEN r.file ELSE reportFile
             /\ IF r.raised # "none"
                THEN /\ Raise(r.raised)
                     /\ UNCHANGED saveResult
                ELSE /\ saveResult' = r.ret
                     /\ console' = IF r.ret = "True" THEN "report saved"
                                   ELSE "save error"
                     /\ pc' = "break"
                     /\ UNCHANGED <<exc, termination>>
    /\ UNCHANGED <<data, plot_files, files, filename, pending, choices, report,
                   reportReads, now>>

\* print("Analysis report generated!") and break
Break ==
    /\ pc = "break"
    /\ pc' = "done"
    /\ termination' = "normal"
    /\ console' = "report generated"
    /\ UNCHANGED <<data, plot_files, files, filename, pending, choices, report,
                   reportFile, saveResult, reportReads, exc, now>>

\* the operator interrupts the session
Interrupt ==
    /\ pc # "done"
    /\ Raise("KeyboardInterrupt")
    /\ UNCHANGED <<data, plot_files, files, filename, pending, choices, report,
                   reportFile, saveResult, reportReads, now>>

Next ==
    \/ LoadData
    \/ MenuCycle
    \/ InputEOF
    \/ Render
    \/ Show
    \/ PressEnter
    \/ GenerateReport
    \/ SaveReport
    \/ Break
    \/ Interrupt

Spec == Init /\ [][Next]_vars

\* ================================================================ claims
WellFormed(d) == d.loaded /\ Columns \subseteq d.cols

\* exceptions whose cause lies outside the program
EnvExc == {"KeyboardInterrupt", "OSError", "EOFError"}

IsPrefix(s, t) == Len(s) <= Len(t) /\ SubSeq(t, 1, Len(s)) = s

Last(s) == s[Len(s)]

\* the file names of the five kinds, in menu order
KindNames == <<"line_plot", "bar_chart", "scatter_plot", "histogram", "heatmap">>

\* the numbered entries a report over paths has to list
Listing(paths) ==
    [i \in 1..Len(paths) |-> [n |-> i, name |-> SubSeq(paths[i], 2, 4)]]

\* C1: with a well-formed Table, choice 6 followed by choice 8 produces the
\* five images in the order line, bar, scatter, histogram, heatmap, leaves
\* exactly those five paths in the artifact list and writes a report that
\* lists the five in that order.
C1_SixThenEight ==
    (WellFormed(data) /\ choices # <<>> /\ choices[1] = 6
        /\ Len(choices) <= 2 /\ pc \notin {"render", "show"}
        /\ exc \notin EnvExc)
    => /\ Len(plot_files) = 5
       /\ \A i \in 1..5 : /\ plot_files[i][2] = KindNames[i]
                          /\ plot_files[i] \in files
       /\ (Len(choices) = 2 /\ choices[2] = 8 /\ pc = "done"
              /\ saveResult = "True")
          => /\ reportFile.written
             /\ reportFile.entries = Listing(plot_files)

\* C2: with a well-formed Table, every choice k in 1..5 has its own renderer
\* write one file plots/{kind}_{timestamp}.png, the controller appends that
\* path to the artifact list and returns to the prompt.
C2_ChoiceRendersOwnKind ==
    (WellFormed(data) /\ choices # <<>> /\ Last(choices) \in 1..5
        /\ pc \notin {"render", "show"} /\ exc \notin EnvExc)
    => /\ pc \in {"pressEnter", "choice"}
       /\ plot_files # <<>>
       /\ \E ts \in 0..MaxTime :
            Last(plot_files) = <<"plots", KindNames[Last(choices)], ts, "png">>
       /\ Last(plot_files) \in files

\* C3: a line that is not an integer, or an integer outside 1..8, changes
\* nothing of the session and leads to another prompt; get_user_choice
\* returns only values in 1..8.
C3_InvalidInputNoChange ==
    [][/\ (pc = "choice" /\ console' \in {"valid number", "between 1 and 8"})
          => /\ pc' = "choice"
             /\ UNCHANGED <<data, plot_files, files, filename, pending,
                            choices, report, reportFile, saveResult,
                            reportReads, exc, termination, now>>
       /\ \A i \in 1..Len(choices') : choices'[i] \in 1..8]_vars

C3_Witness ==
    /\ pc = "choice"
    /\ console \in {"valid number", "between 1 and 8"}
    /\ plot_files # <<>>

\* C4 (as claimed): an interruption at any point, startup and exit branch
\* included, prints the farewell and ends the session with no report
\* persisted.
C4_InterruptAlwaysFarewell ==
    exc = "KeyboardInterrupt"
    => /\ termination = "farewell"
       /\ ~reportFile.written

\* C4 (amended): an interruption inside main's try block prints the farewell
\* and ends the session at once, writing nothing more; one during load_data
\* leaves main uncaught, without the farewell.
C4_InterruptInsideTry ==
    [][(exc = "none" /\ exc' = "KeyboardInterrupt")
       => /\ pc' = "done"
          /\ UNCHANGED <<plot_files, files, report, reportFile, saveResult,
                         reportReads, choices>>
          /\ termination' = IF pc = "load" THEN "uncaught" ELSE "farewell"
          /\ console' = IF pc = "load" THEN "traceback" ELSE "farewell"]_vars

C4_Witness ==
    /\ termination = "farewell"
    /\ reportFile.written
    /\ saveResult = "True"

\* C5: a report is built or written only while the artifact list is
\* non-empty; exit or interruption with an empty list writes none.
C5_ReportOnlyWithArtifacts ==
    (reportFile.written \/ report.built \/ reportReads > 0)
    => plot_files # <<>>

C5_Witness ==
    /\ termination = "normal"
    /\ choices # <<>>
    /\ Last(choices) = 8
    /\ plot_files = <<>>
    /\ ~reportFile.written

\* C6: a failure other than an interruption, raised in a renderer, at an
\* input read or in report generation, reaches the top-level handler: the
\* generic message is printed, the loop ends and no report is written.
C6_FailureEndsSession ==
    exc \in {"NameError", "KeyError", "ValueError", "OSError", "EOFError"}
    => /\ termination = "error"
       /\ pc = "done"
       /\ console = "generic error"
       /\ ~reportFile.written
       /\ saveResult = "unset"

C6_Witness ==
    /\ termination = "error"
    /\ exc = "KeyError"
    /\ plot_files # <<>>
    /\ reportReads = 1

\* C7 (as claimed): a session that ends through choice 8 with a non-empty
\* artifact list has the report written to analysis_report.txt.
C7_ExitWritesReport ==
    (termination = "normal" /\ plot_files # <<>>)
    => /\ reportFile.written
       /\ reportFile.complete
       /\ reportFile.entries = Listing(plot_files)

\* C7 (amended): such a session has built the report once and called
\* save_report; the file holds the report when save_report returned True,
\* and is missing or incomplete when it returned False.
C7_ExitSavesOrReportsFailure ==
    (termination = "normal" /\ plot_files # <<>>)
    => /\ reportReads = 1
       /\ report.built
       /\ report.entries = Listing(plot_files)
       /\ saveResult \in {"True", "False"}
       /\ saveResult = "True"
          => reportFile = [written |-> TRUE, complete |-> TRUE,
                           entries |-> Listing(plot_files)]
       /\ saveResult = "False" => ~reportFile.complete

C7_Witness ==
    /\ termination = "normal"
    /\ saveResult = "True"
    /\ Len(reportFile.entries) >= 1
    /\ reportFile.entries[1].name # plot_files[1]

\* C8: a missing path or a failed parse makes load_data return None without
\* raising; main then ends before the menu loop, with no renderer called and
\* no report; the loop runs only with a loaded Table.
C8_LoadFailureEndsQuietly ==
    /\ (pc = "done" /\ ~data.loaded /\ exc # "KeyboardInterrupt")
       => /\ termination = "nodata"
          /\ exc = "none"
          /\ console = "cannot proceed"
          /\ choices = <<>> /\ plot_files = <<>> /\ files = {}
          /\ reportReads = 0 /\ ~reportFile.written
    /\ pc \notin {"load", "done"} => data.loaded
    /\ termination = "uncaught" => exc = "KeyboardInterrupt"

C8_Witness ==
    /\ termination = "nodata"
    /\ pc = "done"
    /\ ~data.loaded

\* C9: the artifact list changes only by an append at its end; the preview
\* and invalid input leave it alone; the report is built from it at most
\* once.
C9_AppendOnly ==
    [][/\ IsPrefix(plot_files, plot_files')
       /\ Len(plot_files') <= Len(plot_files) + 1
       /\ (pc = "choice" /\ pc' = "choice") => plot_files' = plot_files
       /\ reportReads' <= 1]_vars

C9_Witness ==
    /\ Len(plot_files) >= 2
    /\ plot_files[1] # plot_files[2]
    /\ \E i \in 1..Len(choices) : choices[i] = 7

\* C10 (as claimed): a file-write failure, of the report or of an image, is
\* caught where it occurs and never reaches the top-level handler.
C10_WriteFailureCaughtLocally ==
    ~(exc = "OSError" /\ termination = "error")

\* C10 (amended): save_report catches a failed write, prints the error and
\* returns False, and main goes on to exit normally; a failed image write is
\* not caught in the renderer and ends the session through the top-level
\* handler.
C10_WriteFailureHandling ==
    /\ saveResult = "False"
       => /\ exc \in {"none", "KeyboardInterrupt"}
          /\ termination \in {"running", "normal", "farewell"}
          /\ pc = "break" => console = "save error"
    /\ exc = "OSError"
       => /\ termination = "error"
          /\ console = "generic error"
          /\ pending # <<>>
          /\ ~report.built
          /\ saveResult = "unset"

C10_Witness ==
    /\ saveResult = "False"
    /\ termination = "normal"
    /\ console = "report generated"

====
